---------------------------- MODULE Spec2Model ----------------------------
(***************************************************************************)
(* Model of the six screening scripts of "Projeto Plataforma               *)
(* Quantitativa": the Factor model (Carteira01), the Magic Formula model   *)
(* (Carteira02) and the Dividend model (Carteira03), each in its original  *)
(* script (version 1) and its refactored script (version 2, "- v2.py").    *)
(*                                                                         *)
(* Numbers.  Python floats that are quotients of the inputs are kept as    *)
(* exact fractions <<n, d>> in lowest terms with d > 0 (two quotients are  *)
(* the same float exactly when they are the same fraction, for the small   *)
(* integers enumerated here).  pandas ranks are multiples of 1/2 and       *)
(* combined ranks multiples of 1/4; they are fractions too.                *)
(*                                                                         *)
(* Optional values.  Python's None is <<>> and a present value v is <<v>>. *)
(* Inputs are None or finite numbers; NaN is not enumerated.               *)
(***************************************************************************)
EXTENDS Integers, Sequences, FiniteSets, TLC

VARIABLES
    model,        \* which screening model the script implements
    version,      \* 1: the original script, 2: the refactored "- v2" script
    pc,           \* position of the run: start, analyze, rank, print, done, crashed
    companies,    \* the ticker list returned by get_tickers / get_spy
    idx,          \* number of tickers the analysis loop has processed
    snap,         \* what the data provider answered for the ticker being analysed
    results,      \* per-ticker return values of the scoring function, in loop order
    scores,       \* Factor model: the list of {'Ticker', 'Score'} dicts
    rankings_df,  \* the ranked data frame (a sequence of rows), or None
    stats,        \* the statistics block the run reported, or None
    top_10        \* the value the run returned, or None

vars == <<model, version, pc, companies, idx, snap, results, scores,
          rankings_df, stats, top_10>>

-----------------------------------------------------------------------------
(* Bounds of the model *)

\* largest number of tickers the scraped table holds
MaxUniverse == 3
\* largest number of rows of a dividend history
MaxPayments == 4
\* the dividend histories span the years FirstYear .. FirstYear + YearSpan
YearSpan == 4
MaxTop == 11

-----------------------------------------------------------------------------
(* Python values *)

None == <<>>
Some(v) == <<v>>
IsNone(o) == o = <<>>
Val(o) == o[1]

Abs(n) == IF n < 0 THEN -n ELSE n

RECURSIVE GCD(_, _)
GCD(a, b) == IF b = 0 THEN a ELSE GCD(b, a % b)

\* the float n / d (d # 0), as a fraction in lowest terms
Frac(n, d) ==
    LET g == GCD(Abs(n), Abs(d))
        s == IF d < 0 THEN -1 ELSE 1
    IN  <<(s * n) \div g, (s * d) \div g>>

FracLess(a, b) == a[1] * b[2] < b[1] * a[2]
FracAdd(a, b) == Frac(a[1] * b[2] + b[1] * a[2], a[2] * b[2])
FracHalf(a) == Frac(a[1], 2 * a[2])

Range(s) == {s[i] : i \in 1..Len(s)}

-----------------------------------------------------------------------------
(* Outcomes.  Both versions of a model are given one record shape; the      *)
(* original scripts build dicts with the keys 'Ticker', 'Status', 'Missing' *)
(* and the component keys, the refactored ones dataclass instances.         *)

Included == "Incluida"
Excluded == "Excluida"

-----------------------------------------------------------------------------
(* Magic Formula model (Carteira02) *)

StockDataKeys ==
    <<"EBIT", "Total_Assets", "Current_Assets", "Current_Liabilities",
      "Market_Cap", "Total_Debt", "Total_Cash">>

\* the key names of the original script's required_data dict
RequiredDataKey(k) ==
    CASE k = "Total_Assets" -> "Total Assets"
      [] k = "Current_Assets" -> "Current Assets"
      [] k = "Current_Liabilities" -> "Current Liabilities"
      [] k = "Market_Cap" -> "Market Cap"
      [] k = "Total_Debt" -> "Total Debt"
      [] k = "Total_Cash" -> "Total Cash"
      [] OTHER -> k

StockResult(ticker, status, roc, earnings_yield, missing_data) ==
    [ticker |-> ticker, status |-> status, roc |-> roc,
     earnings_yield |-> earnings_yield, missing_data |-> missing_data]

\* None when a statement is empty or reading the provider raised, else the
\* seven values, each the result of a .get(): None when not reported
get_financial_data(resp) ==
    IF resp.kind = "data" THEN Some(resp.data) ELSE None

\* calculate_metrics dividing EBIT by the net fixed assets alone
calculate_metrics_fixed_only(data) ==
    LET net_fixed_assets == Val(data.Total_Assets) - Val(data.Current_Assets)
        enterprise_value ==
            Val(data.Market_Cap) + Val(data.Total_Debt) - Val(data.Total_Cash)
        denominator == net_fixed_assets
    IN  IF denominator = 0 \/ enterprise_value = 0
        THEN [raised |-> TRUE, msg |-> "Division by zero in calculations"]
        ELSE [raised |-> FALSE,
              roc |-> Frac(Val(data.EBIT), denominator),
              earnings_yield |-> Frac(Val(data.EBIT), enterprise_value)]

\* calculate_metrics with total cash added to the enterprise value
calculate_metrics_cash_added(data) ==
    LET net_fixed_assets == Val(data.Total_Assets) - Val(data.Current_Assets)
        working_capital == Val(data.Current_Assets) - Val(data.Current_Liabilities)
        enterprise_value ==
            Val(data.Market_Cap) + Val(data.Total_Debt) + Val(data.Total_Cash)
        denominator == working_capital + net_fixed_assets
    IN  IF denominator = 0 \/ enterprise_value = 0
        THEN [raised |-> TRUE, msg |-> "Division by zero in calculations"]
        ELSE [raised |-> FALSE,
              roc |-> Frac(Val(data.EBIT), denominator),
              earnings_yield |-> Frac(Val(data.EBIT), enterprise_value)]

\* either (roc, earnings_yield) or the ValueError it raises
calculate_metrics(data) ==
    LET net_fixed_assets == Val(data.Total_Assets) - Val(data.Current_Assets)
        working_capital == Val(data.Current_Assets) - Val(data.Current_Liabilities)
        enterprise_value ==
            Val(data.Market_Cap) + Val(data.Total_Debt) - Val(data.Total_Cash)
        denominator == working_capital + net_fixed_assets
    IN  IF denominator = 0 \/ enterprise_value = 0
        THEN [raised |-> TRUE, msg |-> "Division by zero in calculations"]
        ELSE [raised |-> FALSE,
              roc |-> Frac(Val(data.EBIT), denominator),
              earnings_yield |-> Frac(Val(data.EBIT), enterprise_value)]

\* only the first key holding None
MissingKeysFirst(data) ==
    LET all == SelectSeq(StockDataKeys, LAMBDA k : IsNone(data[k]))
    IN  IF all = <<>> THEN <<>> ELSE <<all[1]>>

\* [k for k, v in data.items() if v is None]
MissingKeys(data) == SelectSeq(StockDataKeys, LAMBDA k : IsNone(data[k]))

\* StockAnalyzer.analyze_stock of the refactored Magic Formula script
analyze_stock_magic(ticker, resp) ==
    LET financial_data == get_financial_data(resp)
    IN  IF IsNone(financial_data)
        THEN StockResult(ticker, Excluded, None, None,
                         <<"Dados financeiros nao disponiveis">>)
        ELSE LET data == Val(financial_data)
                 missing == MissingKeys(data)
             IN  IF missing # <<>>
                 THEN StockResult(ticker, Excluded, None, None, missing)
                 ELSE LET m == calculate_metrics(data)
                      IN  IF m.raised
                          THEN StockResult(ticker, Excluded, None, None, <<m.msg>>)
                          ELSE StockResult(ticker, Included, Some(m.roc),
                                           Some(m.earnings_yield), <<>>)

\* calculate_magic_formula of the original Magic Formula script
calculate_magic_formula(ticker, resp) ==
    IF resp.kind = "error"
    THEN StockResult(ticker, Excluded, None, None, <<"str(e)">>)
    ELSE IF resp.kind = "empty"
    THEN StockResult(ticker, Excluded, None, None,
                     <<"Dados financeiros nao disponiveis">>)
    ELSE LET required_data == resp.data
             missing_data == MissingKeys(required_data)
         IN  IF missing_data # <<>>
             THEN StockResult(ticker, Excluded, None, None,
                     [i \in 1..Len(missing_data) |-> RequiredDataKey(missing_data[i])])
             ELSE LET net_fixed_assets ==
                          Val(required_data.Total_Assets) - Val(required_data.Current_Assets)
                      working_capital ==
                          Val(required_data.Current_Assets)
                              - Val(required_data.Current_Liabilities)
                      enterprise_value ==
                          Val(required_data.Market_Cap) + Val(required_data.Total_Debt)
                              - Val(required_data.Total_Cash)
                  IN  IF (working_capital + net_fixed_assets) = 0 \/ enterprise_value = 0
                      THEN StockResult(ticker, Excluded, None, None,
                                       <<"Divisao por zero nos calculos">>)
                      ELSE StockResult(ticker, Included,
                               Some(Frac(Val(required_data.EBIT),
                                         working_capital + net_fixed_assets)),
                               Some(Frac(Val(required_data.EBIT), enterprise_value)),
                               <<>>)

-----------------------------------------------------------------------------
(* Dividend model (Carteira03) *)

\* a key the info dict does not hold (None is a key holding None)
Absent == <<None, None>>

\* dict.get(k, default)
DictGet(d, k, default) == IF d[k] = Absent THEN default ELSE d[k]

FracTimes(a, n) == Frac(a[1] * n, a[2])

\* round(x, 2): the nearest multiple of 1/100 (no enumerated input lies
\* half-way between two of them, where the binary float decides)
Round2(x) == Frac((200 * x[1] + x[2]) \div (2 * x[2]), 100)

Min(S) == CHOOSE x \in S : \A y \in S : x <= y

RECURSIVE Sorted(_)
\* sorted(S) of a set of integers
Sorted(S) == IF S = {} THEN <<>> ELSE <<Min(S)>> \o Sorted(S \ {Min(S)})

DividendResult(ticker, status, price, yield, years, missing_data) ==
    [ticker |-> ticker, status |-> status, current_price |-> price,
     dividend_yield |-> yield, consecutive_years |-> years,
     missing_data |-> missing_data]

ExcludedDividend(ticker, missing_data) ==
    DividendResult(ticker, Excluded, None, None, None, missing_data)

\* the TypedDict the refactored script builds in get_stock_info; the file
\* uses the name without declaring it, so its shape is taken from its uses
StockInfo(dividend_yield, current_price) ==
    [dividend_yield |-> dividend_yield, current_price |-> current_price]

\* None when reading stock.info raised or None * 100 raised TypeError
get_stock_info(resp) ==
    IF resp.kind = "error" THEN None
    ELSE LET dy == DictGet(resp.info, "dividendYield", Some(<<0, 1>>))
         IN  IF IsNone(dy) THEN None
             ELSE Some(StockInfo(FracTimes(Val(dy), 100),
                                 DictGet(resp.info, "currentPrice", Some(0))))

RECURSIVE ConsecutiveLoopNoBreak(_, _, _)
\* the loop without its break: every adjacent pair of years is counted
ConsecutiveLoopNoBreak(unique_years, i, consecutive_years) ==
    IF i > Len(unique_years) THEN consecutive_years
    ELSE IF unique_years[i] = unique_years[i - 1] + 1
    THEN ConsecutiveLoopNoBreak(unique_years, i + 1, consecutive_years + 1)
    ELSE ConsecutiveLoopNoBreak(unique_years, i + 1, consecutive_years)

RECURSIVE ConsecutiveLoop(_, _, _)
\* the for loop over range(i, len(unique_years)), with its break
ConsecutiveLoop(unique_years, i, consecutive_years) ==
    IF i > Len(unique_years) THEN consecutive_years
    ELSE IF unique_years[i] = unique_years[i - 1] + 1
    THEN ConsecutiveLoop(unique_years, i + 1, consecutive_years + 1)
    ELSE consecutive_years

\* history: the years of the index of history['Dividends'], in row order
calculate_consecutive_years(history) ==
    IF history = <<>> THEN 0
    ELSE ConsecutiveLoop(Sorted(Range(history)), 2, 1)

\* StockAnalyzer.analyze_stock of the refactored Dividend script
analyze_stock_dividend(ticker, resp) ==
    LET stock_info == get_stock_info(resp)
    IN  IF IsNone(stock_info)
        THEN ExcludedDividend(ticker, <<"Dados basicos nao disponiveis">>)
        ELSE LET si == Val(stock_info)
             IN  IF si.dividend_yield[1] = 0 \/ si.current_price = Some(0)
                 THEN ExcludedDividend(ticker, <<"Dados insuficientes de dividendos">>)
                 ELSE IF IsNone(resp.history)
                 THEN ExcludedDividend(ticker, <<"str(e)">>)
                 ELSE DividendResult(ticker, Included, si.current_price,
                          Some(Round2(si.dividend_yield)),
                          Some(calculate_consecutive_years(Val(resp.history))), <<>>)

\* calculate_yield_and_dividend_years of the original Dividend script
calculate_yield_and_dividend_years(ticker, resp) ==
    IF resp.kind = "error" THEN ExcludedDividend(ticker, <<"str(e)">>)
    ELSE LET dy == DictGet(resp.info, "dividendYield", Some(<<0, 1>>))
             current_price == DictGet(resp.info, "currentPrice", Some(0))
         IN  IF IsNone(dy) \/ IsNone(resp.history)
             THEN ExcludedDividend(ticker, <<"str(e)">>)
             ELSE LET dividend_yield == FracTimes(Val(dy), 100)
                      dividendos == Val(resp.history)
                  IN  IF dividendos = <<>> \/ dividend_yield[1] = 0
                             \/ current_price = Some(0)
                      THEN ExcludedDividend(ticker, <<"Dados insuficientes">>)
                      ELSE DividendResult(ticker, Included, current_price,
                               Some(Round2(dividend_yield)),
                               Some(ConsecutiveLoop(Sorted(Range(dividendos)), 2, 1)),
                               <<>>)

-----------------------------------------------------------------------------
(* Factor model (Carteira01) *)

MetricKeys == <<"trailingPE", "returnOnEquity", "debtToEquity", "dividendYield">>

StockScore(ticker, score) == [ticker |-> ticker, score |-> score]

\* the score with a negative return on equity counted as 0
Score_clamped(metrics) ==
    Frac(10 * ((-Val(metrics.trailingPE) * 10)
                  + ((IF Val(metrics.returnOnEquity) < 0 THEN 0
                      ELSE Val(metrics.returnOnEquity)) * 10)
                  + (Val(metrics.dividendYield) * 100))
            - Val(metrics.debtToEquity), 10)

\* (-pe * 10) + (roe * 10) - (de / 10) + (dy * 100)
Score(metrics) ==
    Frac(10 * ((-Val(metrics.trailingPE) * 10) + (Val(metrics.returnOnEquity) * 10)
                  + (Val(metrics.dividendYield) * 100))
            - Val(metrics.debtToEquity), 10)

\* calculate_score of both Factor scripts: None, or the score of the ticker
\* (the original script returns the bare score and its caller adds the ticker)
calculate_score(ticker, resp) ==
    IF resp.kind = "error" THEN None
    ELSE IF \E i \in 1..Len(MetricKeys) : IsNone(resp.metrics[MetricKeys[i]])
    THEN None
    ELSE Some(StockScore(ticker, Score(resp.metrics)))

-----------------------------------------------------------------------------
(* pandas: Series.rank(ascending=False), DataFrame.sort_values *)

\* the indices in I whose value is the largest
ArgMax(vals, I) == {i \in I : \A j \in I : ~FracLess(vals[i], vals[j])}

RECURSIVE ArgSortDesc(_, _)
\* the row indices in I ordered by descending value
ArgSortDesc(vals, I) ==
    IF I = {} THEN <<>>
    ELSE LET i == Min(ArgMax(vals, I))
         IN  <<i>> \o ArgSortDesc(vals, I \ {i})

RECURSIVE RankSweep(_, _, _, _, _, _)
\* the sweep over the sorted rows: a group of equal values ends at i when
\* the next value differs, and each of its dups rows gets sum_ranks / dups
RankSweep(vals, order, i, dups, sum_ranks, out) ==
    IF i > Len(order) THEN out
    ELSE LET d == dups + 1
             sr == sum_ranks + i
             ends == i = Len(order) \/ vals[order[i + 1]] # vals[order[i]]
         IN  IF ends
             THEN RankSweep(vals, order, i + 1, 0, 0,
                      [r \in DOMAIN out |->
                          IF \E j \in (i - d + 1)..i : order[j] = r
                          THEN Frac(sr, d) ELSE out[r]])
             ELSE RankSweep(vals, order, i + 1, d, sr, out)

\* rank with method='dense': 1 + the number of distinct values above
rank_dense(vals) ==
    [r \in DOMAIN vals |->
        <<1 + Cardinality({vals[j] : j \in {i \in DOMAIN vals : FracLess(vals[r], vals[i])}}),
          1>>]

\* rank with method='min': a tie group gets its first position
rank_min(vals) ==
    [r \in DOMAIN vals |->
        <<1 + Cardinality({j \in DOMAIN vals : FracLess(vals[r], vals[j])}), 1>>]

\* Series.rank(ascending=False), method 'average' by default
rank(vals) ==
    RankSweep(vals, ArgSortDesc(vals, DOMAIN vals), 1, 0, 0,
              [r \in DOMAIN vals |-> <<0, 1>>])

\* the indices in I whose key is the smallest
ArgMin(keys, I) == {i \in I : \A j \in I : ~FracLess(keys[j], keys[i])}

RECURSIVE SortOrders(_, _)
\* DataFrame.sort_values(col): kind='quicksort' by default, which is not a
\* stable sort, so every ordering of the rows with ascending keys may result.
\* (numpy's quicksort falls back to insertion sort on 16 rows or fewer, so a
\* run reorders tied rows from 17 rows on; the small universe stands for it.)
SortOrders(keys, I) ==
    IF I = {} THEN {<<>>}
    ELSE UNION {{<<i>> \o t : t \in SortOrders(keys, I \ {i})} : i \in ArgMin(keys, I)}

RECURSIVE SortOrdersDesc(_, _)
\* DataFrame.sort_values(col, ascending=False)
SortOrdersDesc(keys, I) ==
    IF I = {} THEN {<<>>}
    ELSE UNION {{<<i>> \o t : t \in SortOrdersDesc(keys, I \ {i})} : i \in ArgMax(keys, I)}

\* DataFrame.head(n)
head(df, n) == SubSeq(df, 1, IF Len(df) < n THEN Len(df) ELSE n)

\* the rows the reports show
TopN == 10

-----------------------------------------------------------------------------
(* Ranking *)

IsIncluded(r) == r.status = Included
IsExcluded(r) == r.status = Excluded

\* Magic Formula: the frame of the included results with its rank columns
RankColumnsMagic(included) ==
    LET ROC_Rank == rank([i \in 1..Len(included) |-> Val(included[i].roc)])
        EY_Rank == rank([i \in 1..Len(included) |-> Val(included[i].earnings_yield)])
    IN  [i \in 1..Len(included) |->
            [ticker |-> included[i].ticker,
             roc |-> Val(included[i].roc),
             earnings_yield |-> Val(included[i].earnings_yield),
             ROC_Rank |-> ROC_Rank[i],
             EY_Rank |-> EY_Rank[i],
             Combined_Rank |-> FracHalf(FracAdd(ROC_Rank[i], EY_Rank[i]))]]

\* Dividend: the frame of the included results with its rank columns
RankColumnsDividend(included) ==
    LET Yield_Rank == rank([i \in 1..Len(included) |-> Val(included[i].dividend_yield)])
        Years_Rank ==
            rank([i \in 1..Len(included) |-> <<Val(included[i].consecutive_years), 1>>])
    IN  [i \in 1..Len(included) |->
            [ticker |-> included[i].ticker,
             dividend_yield |-> Val(included[i].dividend_yield),
             consecutive_years |-> Val(included[i].consecutive_years),
             Yield_Rank |-> Yield_Rank[i],
             Years_Rank |-> Years_Rank[i],
             Combined_Rank |-> FracHalf(FracAdd(Yield_Rank[i], Years_Rank[i]))]]

\* the rows sorted with ascending=False
CombinedRankOrdersDescending(df) ==
    SortOrdersDesc([i \in 1..Len(df) |-> df[i].Combined_Rank], 1..Len(df))

\* the orders sort_values('Combined_Rank') may leave the rows in
CombinedRankOrders(df) ==
    SortOrders([i \in 1..Len(df) |-> df[i].Combined_Rank], 1..Len(df))

\* reset_index(drop=True) and df['Final_Rank'] = df.index + 1
WithFinalRank(df, order) ==
    [k \in 1..Len(order) |->
        [c \in DOMAIN df[order[k]] \cup {"Final_Rank"} |->
            IF c = "Final_Rank" THEN k ELSE df[order[k]][c]]]

\* prepare_rankings (and the same steps of the original scripts' main): the
\* data frames it may return, None when no result is included
prepare_rankings(m, res) ==
    LET included == SelectSeq(res, IsIncluded)
    IN  IF included = <<>> THEN {None}
        ELSE LET df == IF m = "Magic" THEN RankColumnsMagic(included)
                       ELSE RankColumnsDividend(included)
             IN  {Some(WithFinalRank(df, order)) : order \in CombinedRankOrders(df)}

\* the orders sort_values(by='Score', ascending=False) may leave the rows in
ScoreOrders(sc) == SortOrdersDesc([i \in 1..Len(sc) |-> sc[i].Score], 1..Len(sc))

\* _prepare_results: the sorted frames with their Rank column
prepare_results(sc) ==
    {[k \in 1..Len(order) |->
        [Ticker |-> sc[order[k]].Ticker, Score |-> sc[order[k]].Score, Rank |-> k]]
     : order \in ScoreOrders(sc)}

\* the columns of the returned table
ReturnedColumns(m, row) ==
    CASE m = "Magic" -> [Final_Rank |-> row.Final_Rank, ticker |-> row.ticker]
      [] m = "Dividend" ->
            [Final_Rank |-> row.Final_Rank, ticker |-> row.ticker,
             dividend_yield |-> row.dividend_yield,
             consecutive_years |-> row.consecutive_years]
      [] OTHER -> [Rank |-> row.Rank, Ticker |-> row.Ticker]

Top10(m, df) == LET h == head(df, TopN) IN [k \in 1..Len(h) |-> ReturnedColumns(m, h[k])]

\* the statistics block: the three counts and one line per excluded result
Statistics(res) ==
    LET excluded == SelectSeq(res, IsExcluded)
    IN  [total |-> Len(res),
         included |-> Len(res) - Len(excluded),
         excluded |-> Len(excluded),
         details |-> [i \in 1..Len(excluded) |->
                         <<excluded[i].ticker, excluded[i].missing_data>>]]

-----------------------------------------------------------------------------
(* What the outside world may answer *)

Models == {"Factor", "Magic", "Dividend"}

\* the Symbol column of the scraped table
SP500 == <<"AAPL", "MSFT", "NVDA", "AMZN", "GOOG", "META", "TSLA", "AVGO",
           "LLY", "JPM", "XOM", "UNH">>

\* what the scrape may give: None when the request or the parsing raised,
\* else the first n symbols of the table
Tables == {None} \cup {Some(SubSeq(SP500, 1, n)) : n \in 0..MaxUniverse}

NoSnap == [kind |-> "none"]
ProviderError == [kind |-> "error"]

MagicData(E, TA, CA, CL, MC, TD, TC) ==
    {[kind |-> "data", data |-> d] :
        d \in [EBIT : E, Total_Assets : TA, Current_Assets : CA,
               Current_Liabilities : CL, Market_Cap : MC, Total_Debt : TD,
               Total_Cash : TC]}

MagicScoreResponses ==
    {ProviderError, [kind |-> "empty"]}
    \cup MagicData({None, Some(0), Some(10), Some(20)}, {None, Some(50), Some(70)},
                   {None, Some(30), Some(50)}, {None, Some(30), Some(50)},
                   {None, Some(0), Some(100)}, {None, Some(0), Some(20)},
                   {None, Some(20), Some(120)})

MagicRunResponses ==
    {ProviderError, [kind |-> "empty"]}
    \cup MagicData({Some(10)}, {Some(50), Some(70)}, {Some(30)}, {Some(30), Some(50)},
                   {None, Some(100)}, {Some(20)}, {Some(20), Some(70)})

Years == 2019..(2019 + YearSpan)

\* the years of a history's rows: rows are in date order
Histories ==
    UNION {{h \in [1..n -> Years] : \A i \in 1..n : \A j \in i..n : h[i] <= h[j]}
           : n \in 0..MaxPayments}

DividendData(DY, CP, H) ==
    {[kind |-> "data", info |-> i, history |-> h] :
        i \in [dividendYield : DY, currentPrice : CP], h \in H}

DividendScoreResponses ==
    {ProviderError}
    \cup DividendData({Absent, None, Some(<<0, 1>>), Some(<<4, 100000>>),
                       Some(<<123, 10000>>), Some(<<1234, 100000>>), Some(<<1, 40>>)},
                      {Absent, None, Some(0), Some(10)},
                      {None} \cup {Some(h) : h \in Histories})

DividendRunResponses ==
    {ProviderError}
    \cup DividendData({Some(<<0, 1>>), Some(<<123, 10000>>), Some(<<1234, 100000>>),
                       Some(<<1, 40>>)},
                      {Some(10)},
                      {Some(<<>>), Some(<<2019, 2020, 2021, 2023>>), Some(<<2022, 2023>>)})

FactorData(PE, ROE, DE, DY) ==
    {[kind |-> "data", metrics |-> d] :
        d \in [trailingPE : PE, returnOnEquity : ROE, debtToEquity : DE,
               dividendYield : DY]}

FactorScoreResponses ==
    {ProviderError}
    \cup FactorData({None, Some(-1), Some(0), Some(2)}, {None, Some(-1), Some(0), Some(2)},
                    {None, Some(-1), Some(0), Some(2)}, {None, Some(-1), Some(0), Some(2)})

FactorRunResponses ==
    {ProviderError}
    \cup FactorData({None, Some(1), Some(2)}, {Some(-1), Some(1)}, {Some(0), Some(10)},
                    {Some(0)})

ScoreResponses(m) ==
    CASE m = "Magic" -> MagicScoreResponses
      [] m = "Dividend" -> DividendScoreResponses
      [] OTHER -> FactorScoreResponses

RunResponses(m) ==
    CASE m = "Magic" -> MagicRunResponses
      [] m = "Dividend" -> DividendRunResponses
      [] OTHER -> FactorRunResponses

-----------------------------------------------------------------------------
(* The run *)

\* the per-ticker function of the script
ScoreOutcome(m, v, ticker, resp) ==
    CASE m = "Magic" /\ v = 2 -> analyze_stock_magic(ticker, resp)
      [] m = "Magic" /\ v = 1 -> calculate_magic_formula(ticker, resp)
      [] m = "Dividend" /\ v = 2 -> analyze_stock_dividend(ticker, resp)
      [] m = "Dividend" /\ v = 1 -> calculate_yield_and_dividend_years(ticker, resp)
      [] OTHER -> calculate_score(ticker, resp)

Init ==
    /\ model \in Models
    /\ version \in {1, 2}
    /\ pc = "start"
    /\ companies = <<>>
    /\ idx = 0
    /\ snap = NoSnap
    /\ results = <<>>
    /\ scores = <<>>
    /\ rankings_df = None
    /\ stats = None
    /\ top_10 = None

\* get_tickers (refactored: any failure is caught and gives []) or get_spy
\* (original: a failure propagates), and the check of the list that follows
GetTickers(table) ==
    /\ pc = "start"
    /\ IF version = 2
       THEN /\ companies' = (IF IsNone(table) THEN <<>> ELSE Val(table))
            /\ pc' = (IF companies' = <<>> THEN "done" ELSE "analyze")
       ELSE /\ companies' = (IF IsNone(table) THEN companies ELSE Val(table))
            /\ pc' = (IF IsNone(table) THEN "crashed"
                      ELSE IF companies' = <<>> THEN "rank" ELSE "analyze")
    /\ UNCHANGED <<model, version, idx, snap, results, scores, rankings_df,
                   stats, top_10>>

\* the loop's bookkeeping for one ticker: r is what the scoring function
\* returned for the provider's answer resp
Collect(resp, r) ==
    /\ results' = Append(results, r)
    /\ scores' = (IF model = "Factor" /\ ~IsNone(r)
                  THEN Append(scores, [Ticker |-> Val(r).ticker, Score |-> Val(r).score])
                  ELSE scores)
    /\ snap' = resp
    /\ idx' = idx + 1
    /\ pc' = (IF idx + 1 = Len(companies) THEN "rank" ELSE "analyze")
    /\ UNCHANGED <<model, version, companies, rankings_df, stats, top_10>>

\* the loop without the scoring function's try/except: a provider error
\* propagates and ends the run
AnalyzeStockUncaught(resp) ==
    /\ pc = "analyze"
    /\ idx < Len(companies)
    /\ IF resp.kind = "error"
       THEN /\ pc' = "crashed"
            /\ UNCHANGED <<model, version, companies, idx, snap, results, scores,
                           rankings_df, stats, top_10>>
       ELSE Collect(resp, ScoreOutcome(model, version, companies[idx + 1], resp))

\* one iteration of the analysis loop: the provider answers resp for the
\* next ticker and the scoring function's return value is collected
AnalyzeStock(resp) ==
    /\ pc = "analyze"
    /\ idx < Len(companies)
    /\ Collect(resp, ScoreOutcome(model, version, companies[idx + 1], resp))

\* prepare_rankings called inside the loop, on the outcomes collected so far
PrepareRankingsEarly ==
    /\ pc \in {"analyze", "rank"}
    /\ model # "Factor"
    /\ idx >= 1
    /\ \E df \in prepare_rankings(model, results) : rankings_df' = df
    /\ pc' = (IF pc = "rank" THEN "print" ELSE pc)
    /\ UNCHANGED <<model, version, companies, idx, snap, results, scores,
                   stats, top_10>>

\* Magic Formula and Dividend: prepare_rankings
PrepareRankings ==
    /\ pc = "rank"
    /\ model # "Factor"
    /\ \E df \in prepare_rankings(model, results) : rankings_df' = df
    /\ pc' = "print"
    /\ UNCHANGED <<model, version, companies, idx, snap, results, scores,
                   stats, top_10>>

\* Magic Formula and Dividend: print_results and the return.  The original
\* scripts print the statistics only in the branch that has included rows.
PrintResults ==
    /\ pc = "print"
    /\ stats' = (IF version = 2 \/ ~IsNone(rankings_df)
                 THEN Some(Statistics(results)) ELSE None)
    /\ top_10' = (IF IsNone(rankings_df) THEN None
                  ELSE Some(Top10(model, Val(rankings_df))))
    /\ pc' = "done"
    /\ UNCHANGED <<model, version, companies, idx, snap, results, scores,
                   rankings_df>>

\* Factor: the check of scores, then _prepare_results and the return
PrepareResults ==
    /\ pc = "rank"
    /\ model = "Factor"
    /\ IF scores = <<>>
       THEN UNCHANGED <<rankings_df, top_10>>
       ELSE \E df \in prepare_results(scores) :
                /\ rankings_df' = Some(df)
                /\ top_10' = Some(Top10(model, df))
    /\ pc' = "done"
    /\ UNCHANGED <<model, version, companies, idx, snap, results, scores, stats>>

Next ==
    \/ \E table \in Tables : GetTickers(table)
    \/ \E resp \in RunResponses(model) : AnalyzeStock(resp)
    \/ PrepareRankings
    \/ PrintResults
    \/ PrepareResults

Spec == Init /\ [][Next]_vars

-----------------------------------------------------------------------------
(* The scoring functions alone: one ticker, every enumerated answer *)

InitScore ==
    /\ model \in Models
    /\ version \in {1, 2}
    /\ pc = "analyze"
    /\ companies = <<SP500[1]>>
    /\ idx = 0
    /\ snap \in ScoreResponses(model)
    /\ results = <<>>
    /\ scores = <<>>
    /\ rankings_df = None
    /\ stats = None
    /\ top_10 = None

NextScore == AnalyzeStock(snap)

SpecScore == InitScore /\ [][NextScore]_vars

-----------------------------------------------------------------------------
(* Runs over a universe longer than the reported table: every ticker either *)
(* fails at the provider or answers with values of its own, so that no two  *)
(* rows tie                                                                 *)

TopTables == {None} \cup {Some(SubSeq(SP500, 1, n)) : n \in 0..MaxTop}

\* the answer with data of the ticker at position i
TopData(m, i) ==
    CASE m = "Magic" ->
            [kind |-> "data",
             data |-> [EBIT |-> Some(10), Total_Assets |-> Some(50 + (10 * i)),
                       Current_Assets |-> Some(30), Current_Liabilities |-> Some(30),
                       Market_Cap |-> Some(100), Total_Debt |-> Some(20),
                       Total_Cash |-> Some(20)]]
      [] m = "Dividend" ->
            [kind |-> "data",
             info |-> [dividendYield |-> Some(<<i, 1000>>), currentPrice |-> Some(10)],
             history |-> Some(<<2022, 2023>>)]
      [] OTHER ->
            [kind |-> "data",
             metrics |-> [trailingPE |-> Some(i), returnOnEquity |-> Some(1),
                          debtToEquity |-> Some(0), dividendYield |-> Some(0)]]

TopResponses(m, i) == {ProviderError, TopData(m, i)}

NextTop ==
    \/ \E table \in TopTables : GetTickers(table)
    \/ \E resp \in TopResponses(model, idx + 1) : AnalyzeStock(resp)
    \/ PrepareRankings
    \/ PrintResults
    \/ PrepareResults

SpecTop == Init /\ [][NextTop]_vars

\* what is left of the tables once the entry point has returned: its return
\* value, the only table the caller receives (the full frame is a local)
RetainedRanking == top_10

-----------------------------------------------------------------------------
(* Vocabulary of the properties *)

Ranked == model # "Factor" /\ ~IsNone(rankings_df)

\* the rows of the ranked frame
Rows == Val(rankings_df)

\* the two rank components of a row: its value and its fractional rank
CompValue(row, c) ==
    IF model = "Magic"
    THEN (IF c = 1 THEN row.roc ELSE row.earnings_yield)
    ELSE (IF c = 1 THEN row.dividend_yield ELSE <<row.consecutive_years, 1>>)

CompRank(row, c) ==
    IF model = "Magic"
    THEN (IF c = 1 THEN row.ROC_Rank ELSE row.EY_Rank)
    ELSE (IF c = 1 THEN row.Yield_Rank ELSE row.Years_Rank)

\* how many rows have a value of component c above, or equal to, that of row
Above(row, c) ==
    Cardinality({k \in 1..Len(Rows) : FracLess(CompValue(row, c), CompValue(Rows[k], c))})

Tied(row, c) ==
    Cardinality({k \in 1..Len(Rows) : CompValue(Rows[k], c) = CompValue(row, c)})

RECURSIVE SumFromTo(_, _)
SumFromTo(a, b) == IF a > b THEN 0 ELSE a + SumFromTo(a + 1, b)

\* the outcome of the i-th ticker is Included
IncludedAt(i) ==
    IF model = "Factor" THEN ~IsNone(results[i]) ELSE results[i].status = Included

ExcludedAt(i) ==
    IF model = "Factor" THEN IsNone(results[i]) ELSE results[i].status = Excluded

IncludedCount == Cardinality({i \in 1..Len(results) : IncludedAt(i)})

-----------------------------------------------------------------------------
(* C1: in the Magic Formula and Dividend rankings, each component rank of a *)
(* row is the mean of the 1-based positions its tie group occupies when the *)
(* values are ordered from highest to lowest: with g rows strictly above    *)
(* and e rows sharing the value, the mean of g+1 .. g+e.                    *)
C1_FractionalRank ==
    Ranked =>
        \A k \in 1..Len(Rows) : \A c \in 1..2 :
            LET g == Above(Rows[k], c)
                e == Tied(Rows[k], c)
                r == CompRank(Rows[k], c)
            IN  r[1] * e = r[2] * SumFromTo(g + 1, g + e)

\* three rows, two tied for the best first component at rank 1.5, the third
\* strictly lower at rank 3
C1_Witness ==
    /\ Ranked
    /\ Len(Rows) = 3
    /\ \E a, b, c \in 1..3 :
          /\ a # b
          /\ CompValue(Rows[a], 1) = CompValue(Rows[b], 1)
          /\ FracLess(CompValue(Rows[c], 1), CompValue(Rows[a], 1))
          /\ CompRank(Rows[a], 1) = <<3, 2>>
          /\ CompRank(Rows[b], 1) = <<3, 2>>
          /\ CompRank(Rows[c], 1) = <<3, 1>>

(* C2: the final ranks are 1..K, each once, K the number of Included        *)
(* symbols, every Included symbol having one row; the combined rank is the  *)
(* mean of the two component ranks; and a smaller final rank never has a    *)
(* larger combined rank.                                                    *)
C2_FinalRanks ==
    Ranked =>
        /\ Len(Rows) = IncludedCount
        /\ Len(Rows) >= 1
        /\ {Rows[k].Final_Rank : k \in 1..Len(Rows)} = 1..Len(Rows)
        /\ {Rows[k].ticker : k \in 1..Len(Rows)}
              = {results[i].ticker : i \in {j \in 1..Len(results) : IncludedAt(j)}}
        /\ \A k \in 1..Len(Rows) :
              LET r1 == CompRank(Rows[k], 1)
                  r2 == CompRank(Rows[k], 2)
                  cr == Rows[k].Combined_Rank
              IN  2 * cr[1] * r1[2] * r2[2] = cr[2] * (r1[1] * r2[2] + r2[1] * r1[2])
        /\ \A a, b \in 1..Len(Rows) :
              Rows[a].Final_Rank < Rows[b].Final_Rank
                  => ~FracLess(Rows[b].Combined_Rank, Rows[a].Combined_Rank)

\* three rows with three different combined ranks
C2_Witness ==
    /\ Ranked
    /\ pc = "done"
    /\ Len(Rows) = 3
    /\ FracLess(Rows[1].Combined_Rank, Rows[2].Combined_Rank)
    /\ FracLess(Rows[2].Combined_Rank, Rows[3].Combined_Rank)

\* the ticker of a row of the ranked frame
RowTicker(row) == IF model = "Factor" THEN row.Ticker ELSE row.ticker

RankedTickers ==
    IF IsNone(rankings_df) THEN {}
    ELSE {RowTicker(Val(rankings_df)[k]) : k \in 1..Len(Val(rankings_df))}

(* C3: once the run is over, a symbol whose outcome is Excluded has no row  *)
(* in the ranking, is counted among the excluded symbols of the statistics  *)
(* and has its reasons listed there under its symbol.                       *)
C3_ExcludedInStatistics ==
    (pc = "done" /\ companies # <<>>) =>
        \A i \in 1..Len(results) :
            ExcludedAt(i) =>
                /\ companies[i] \notin RankedTickers
                /\ ~IsNone(stats)
                /\ Val(stats).excluded
                      = Cardinality({j \in 1..Len(results) : ExcludedAt(j)})
                /\ \E d \in 1..Len(Val(stats).details) :
                      /\ Val(stats).details[d][1] = companies[i]
                      /\ model # "Factor"
                            => Val(stats).details[d][2] = results[i].missing_data

(* C4: a non-empty universe never ends the run early: while the loop runs   *)
(* the outcomes collected are those of the tickers processed so far, after  *)
(* it there is one per ticker, in universe order, each Included or          *)
(* Excluded, and a provider failure gives an Excluded outcome.              *)
C4_OneOutcomePerSymbol ==
    companies # <<>> =>
        /\ pc # "crashed"
        /\ pc = "analyze" => (Len(results) = idx /\ idx < Len(companies))
        /\ pc \in {"rank", "print", "done"} => Len(results) = Len(companies)
        /\ \A i \in 1..Len(results) :
              /\ IncludedAt(i) # ExcludedAt(i)
              /\ model # "Factor" => results[i].ticker = companies[i]
              /\ (model = "Factor" /\ IncludedAt(i))
                    => Val(results[i]).ticker = companies[i]
        /\ (snap = ProviderError /\ idx >= 1) => ExcludedAt(idx)

\* a finished run of three tickers whose first failed at the provider and
\* whose last is Included
C4_Witness ==
    /\ pc = "done"
    /\ Len(companies) = 3
    /\ Len(results) = 3
    /\ model = "Magic"
    /\ version = 1
    /\ results[1].missing_data = <<"str(e)">>
    /\ IncludedAt(3)

\* the answer holds data, and lacks a metric the model requires
MissingRequired ==
    /\ snap.kind = "data"
    /\ CASE model = "Factor" ->
                \E i \in 1..Len(MetricKeys) : IsNone(snap.metrics[MetricKeys[i]])
         [] model = "Magic" ->
                \E i \in 1..Len(StockDataKeys) : IsNone(snap.data[StockDataKeys[i]])
         [] OTHER ->
                \/ snap.info.dividendYield \in {Absent, None}
                \/ snap.info.currentPrice \in {Absent, None}
                \/ snap.history = Some(<<>>)

(* C5: in each of the three models, an answer lacking a required metric     *)
(* gives an Excluded outcome.                                               *)
C5_MissingMetricExcluded ==
    (Len(results) = 1 /\ MissingRequired) => ExcludedAt(1)

\* the names the script reports for the metrics the answer lacks
AbsentNames ==
    {IF version = 1 THEN RequiredDataKey(k) ELSE k :
        k \in {StockDataKeys[i] : i \in {j \in 1..Len(StockDataKeys) :
                                            IsNone(snap.data[StockDataKeys[j]])}}}

DivisionByZeroReasons ==
    {<<"Division by zero in calculations">>, <<"Divisao por zero nos calculos">>}

(* C6: Magic Formula, an answer holding data.  If metrics are absent the    *)
(* outcome is Excluded and its reasons are exactly the absent names, each   *)
(* once; otherwise, if working_capital + net_fixed_assets = 0 or            *)
(* enterprise_value = 0, it is Excluded with the division-by-zero reason;   *)
(* otherwise it is Included.                                                *)
C6_ExclusionOrder ==
    (model = "Magic" /\ Len(results) = 1 /\ snap.kind = "data") =>
        LET d == snap.data
            r == results[1]
        IN  IF AbsentNames # {}
            THEN /\ r.status = Excluded
                 /\ Range(r.missing_data) = AbsentNames
                 /\ Len(r.missing_data) = Cardinality(AbsentNames)
            ELSE IF \/ (Val(d.Current_Assets) - Val(d.Current_Liabilities))
                          + (Val(d.Total_Assets) - Val(d.Current_Assets)) = 0
                    \/ Val(d.Market_Cap) + Val(d.Total_Debt) - Val(d.Total_Cash) = 0
            THEN /\ r.status = Excluded
                 /\ r.missing_data \in DivisionByZeroReasons
            ELSE r.status = Included

\* total_assets = current_assets = current_liabilities = 50: both terms of
\* the denominator are zero while the enterprise value is not
C6_Witness ==
    /\ model = "Magic"
    /\ Len(results) = 1
    /\ snap.kind = "data"
    /\ AbsentNames = {}
    /\ snap.data.Total_Assets = Some(50)
    /\ snap.data.Current_Assets = Some(50)
    /\ snap.data.Current_Liabilities = Some(50)
    /\ snap.data.Market_Cap = Some(100)
    /\ snap.data.Total_Debt = Some(20)
    /\ snap.data.Total_Cash = Some(20)
    /\ results[1].status = Excluded
    /\ results[1].missing_data \in DivisionByZeroReasons

(* C7: every Included Magic Formula outcome has                             *)
(* earnings_yield = EBIT / (market_cap + total_debt - total_cash) and       *)
(* return_on_capital = EBIT / ((current_assets - current_liabilities) +     *)
(* (total_assets - current_assets)); market_cap 100, total_debt 20,         *)
(* total_cash 20 and EBIT 10 give earnings_yield 1/10.                       *)
C7_DerivedQuantities ==
    (model = "Magic" /\ Len(results) = 1 /\ snap.kind = "data"
        /\ results[1].status = Included) =>
        LET d == snap.data
            ev == Val(d.Market_Cap) + Val(d.Total_Debt) - Val(d.Total_Cash)
            cap == (Val(d.Current_Assets) - Val(d.Current_Liabilities))
                      + (Val(d.Total_Assets) - Val(d.Current_Assets))
            ey == Val(results[1].earnings_yield)
            roc == Val(results[1].roc)
        IN  /\ ev # 0 /\ cap # 0
            /\ ey[2] > 0 /\ roc[2] > 0
            /\ ey[1] * ev = Val(d.EBIT) * ey[2]
            /\ roc[1] * cap = Val(d.EBIT) * roc[2]
            /\ (ev = 100 /\ Val(d.EBIT) = 10) => ey = <<1, 10>>

C7_Witness ==
    /\ model = "Magic"
    /\ Len(results) = 1
    /\ snap.kind = "data"
    /\ snap.data.Market_Cap = Some(100)
    /\ snap.data.Total_Debt = Some(20)
    /\ snap.data.Total_Cash = Some(20)
    /\ snap.data.EBIT = Some(10)
    /\ results[1].status = Included
    /\ results[1].earnings_yield = Some(<<1, 10>>)

\* the distinct years of the history the provider answered
PaymentYears == Range(Val(snap.history))

(* C8: for a non-empty payment history the consecutive-years result n is    *)
(* at least 1, the years first, first+1, .., first+n-1 are all present,     *)
(* first being the earliest year, and first+n is not: the run that begins   *)
(* at the earliest year, cut at the first gap.  {2019,2020,2021,2023}: 3.   *)
C8_ConsecutiveYears ==
    (model = "Dividend" /\ Len(results) = 1 /\ snap.kind = "data"
        /\ results[1].status = Included /\ Val(snap.history) # <<>>) =>
        LET n == Val(results[1].consecutive_years)
            first == Min(PaymentYears)
        IN  /\ n >= 1
            /\ \A k \in 0..(n - 1) : first + k \in PaymentYears
            /\ first + n \notin PaymentYears
            /\ PaymentYears = {2019, 2020, 2021, 2023} => n = 3

C8_Witness ==
    /\ model = "Dividend"
    /\ Len(results) = 1
    /\ snap.kind = "data"
    /\ results[1].status = Included
    /\ PaymentYears = {2019, 2020, 2021, 2023}
    /\ results[1].consecutive_years = Some(3)

InsufficientReasons ==
    {<<"Dados insuficientes de dividendos">>, <<"Dados insuficientes">>}

(* C9: Dividend model, an answer whose yield is a number and whose history  *)
(* could be read.  If the yield is 0, or the price is 0, or the history has *)
(* no rows, the outcome is Excluded with the insufficient-dividend-data     *)
(* reason; and no Included outcome has consecutive_years below 1.           *)
C9_InsufficientDividendData ==
    (model = "Dividend" /\ Len(results) = 1 /\ snap.kind = "data"
        /\ ~IsNone(snap.history) /\ ~IsNone(snap.info.dividendYield)) =>
        LET dy == DictGet(snap.info, "dividendYield", Some(<<0, 1>>))
            cp == DictGet(snap.info, "currentPrice", Some(0))
        IN  /\ (Val(dy)[1] = 0 \/ cp = Some(0) \/ Val(snap.history) = <<>>)
                  => /\ results[1].status = Excluded
                     /\ results[1].missing_data \in InsufficientReasons
            /\ results[1].status = Included
                  => Val(results[1].consecutive_years) >= 1

\* the position of a ticker in the universe
UniversePos(t) == CHOOSE i \in 1..Len(companies) : companies[i] = t

(* C10: of two rows with equal combined rank, the one whose symbol comes    *)
(* earlier in the universe has the smaller final rank.                      *)
C10_StableSort ==
    Ranked =>
        \A a, b \in 1..Len(Rows) :
            (/\ Rows[a].Combined_Rank = Rows[b].Combined_Rank
             /\ UniversePos(Rows[a].ticker) < UniversePos(Rows[b].ticker))
                => Rows[a].Final_Rank < Rows[b].Final_Rank

\* the Factor run has produced its sorted frame
FactorRanked == model = "Factor" /\ ~IsNone(rankings_df)

\* ten times the raw score of an answer that holds the four metrics
TenTimesScore(m) ==
    (-100 * Val(m.trailingPE)) + (100 * Val(m.returnOnEquity))
        - Val(m.debtToEquity) + (1000 * Val(m.dividendYield))

\* the answer just scored holds all four metrics
AllMetricsPresent ==
    /\ snap.kind = "data"
    /\ \A i \in 1..Len(MetricKeys) : ~IsNone(snap.metrics[MetricKeys[i]])

RowRank(row) == IF model = "Factor" THEN row.Rank ELSE row.Final_Rank

(* C12: a finished run with K >= 1 included tickers returns a table of      *)
(* min(10, K) rows, the rows of final ranks 1..min(10, K) of the full       *)
(* ranking in rank order; the full ranking still has its K rows, the        *)
(* statistics of the run exist, and the K rows are still there for the      *)
(* caller once the run has returned.                                        *)
C12_TopTenSlice ==
    (pc = "done" /\ companies # <<>> /\ IncludedCount >= 1) =>
        LET K == IncludedCount
            n == IF K < 10 THEN K ELSE 10
        IN  /\ ~IsNone(top_10)
            /\ ~IsNone(rankings_df)
            /\ Len(Val(top_10)) = n
            /\ \A k \in 1..n :
                  /\ RowRank(Val(top_10)[k]) = k
                  /\ Val(top_10)[k] = ReturnedColumns(model, Rows[k])
            /\ Len(Rows) = K
            /\ \A k \in 1..K : RowRank(Rows[k]) = k
            /\ ~IsNone(stats)
            /\ Val(stats).total = Len(companies)
            /\ Val(stats).included = K
            /\ Len(Val(RetainedRanking)) = K

\* a finished Magic Formula run with eleven included tickers: ten rows are
\* returned and the eleventh is in the full frame only
C12_Witness ==
    /\ pc = "done"
    /\ model = "Magic"
    /\ version = 2
    /\ IncludedCount = 11
    /\ Len(Rows) = 11
    /\ Len(Val(top_10)) = 10
    /\ Val(top_10)[10].Final_Rank = 10
    /\ Rows[11].ticker \notin {Val(top_10)[k].ticker : k \in 1..10}
    /\ ~IsNone(stats)

\* the scrape gave no symbol: the list is empty once get_tickers is over
UniverseUnavailable == pc # "start" /\ companies = <<>>

\* the run ended by an exception that reached the caller
RaisedToCaller == pc = "crashed"

\* every ticker of a non-empty universe has been analysed and none included
AllExcluded ==
    /\ companies # <<>>
    /\ Len(results) = Len(companies)
    /\ IncludedCount = 0

(* C13: when the scrape gives no symbol the run ends at once by a failure   *)
(* raised to the caller, with no ticker analysed and no table built; a run  *)
(* whose tickers were all excluded ends by a normal return, so the caller   *)
(* can tell the two apart.                                                  *)
C13_UniverseUnavailable ==
    /\ UniverseUnavailable =>
            /\ RaisedToCaller
            /\ results = <<>>
            /\ idx = 0
            /\ IsNone(rankings_df)
            /\ IsNone(top_10)
    /\ AllExcluded => ~RaisedToCaller

(* C14: a run over a non-empty universe whose tickers were all excluded     *)
(* returns normally with no ranking, and its statistics exist: total equals *)
(* excluded equals the size of the universe, included is 0, and every       *)
(* ticker is listed with its reasons.                                       *)
C14_AllExcludedTerminal ==
    (pc = "done" /\ AllExcluded) =>
        /\ ~RaisedToCaller
        /\ IsNone(rankings_df)
        /\ IsNone(top_10)
        /\ ~IsNone(stats)
        /\ Val(stats).total = Len(companies)
        /\ Val(stats).excluded = Val(stats).total
        /\ Val(stats).included = 0
        /\ Len(Val(stats).details) = Len(companies)
        /\ \A i \in 1..Len(companies) :
              /\ Val(stats).details[i][1] = companies[i]
              /\ Val(stats).details[i][2] = results[i].missing_data

\* the ranking step has been taken
RankingStarted == pc \in {"print", "done"} /\ companies # <<>>

(* C15: the ranking is a barrier.  The ranked frame is written only by a    *)
(* step taken when every ticker of the universe has its outcome, and only   *)
(* while it is still empty; from the moment the loop is over no outcome is  *)
(* added or changed; the run never comes back to the ranking step once it   *)
(* has left it, and a run over a non-empty universe completes only through  *)
(* that step.                                                               *)
C15_RankingBarrier ==
    [][/\ rankings_df' # rankings_df =>
              /\ pc = "rank"
              /\ IsNone(rankings_df)
              /\ Len(results) = Len(companies)
              /\ \A i \in 1..Len(results) : IncludedAt(i) # ExcludedAt(i)
       /\ pc \in {"rank", "print", "done"} =>
              /\ results' = results
              /\ scores' = scores
       /\ RankingStarted =>
              /\ RankingStarted'
              /\ rankings_df' = rankings_df
       /\ (RankingStarted' /\ ~RankingStarted) =>
              /\ pc = "rank"
              /\ Len(results) = Len(companies)]_vars

\* a finished run of three tickers, the first excluded and the other two
\* included and ranked
C15_Witness ==
    /\ pc = "done"
    /\ Len(companies) = 3
    /\ ExcludedAt(1)
    /\ IncludedAt(2)
    /\ IncludedAt(3)
    /\ ~IsNone(rankings_df)
    /\ Len(Rows) = 2
    /\ model = "Dividend"

\* the classification and the component values of an outcome
Components(r) ==
    CASE model = "Magic" -> <<r.status, r.roc, r.earnings_yield>>
      [] model = "Dividend" -> <<r.status, r.dividend_yield, r.consecutive_years>>
      [] OTHER -> r

(* C16: on every answer of the provider, the original and the refactored    *)
(* script of a model give the ticker the same classification and the same   *)
(* component values, and any list of outcomes gets the same rankings from   *)
(* both.                                                                    *)
C16_VersionsEquivalent ==
    Len(results) = 1 =>
        LET r1 == ScoreOutcome(model, 1, companies[1], snap)
            r2 == ScoreOutcome(model, 2, companies[1], snap)
        IN  /\ results[1] = (IF version = 1 THEN r1 ELSE r2)
            /\ Components(r1) = Components(r2)
            /\ model # "Factor" =>
                  prepare_rankings(model, <<r1>>) = prepare_rankings(model, <<r2>>)

RECURSIVE SumRanks(_, _)
\* the sum of f[1], .., f[k], each a fraction
SumRanks(f, k) == IF k = 0 THEN <<0, 1>> ELSE FracAdd(SumRanks(f, k - 1), f[k])

\* the fraction r lies in [1, K]
InOneToK(r, K) == r[2] > 0 /\ r[2] <= r[1] /\ r[1] <= K * r[2]

(* C17: in a ranking of K rows, the ranks of each component sum to          *)
(* K (K + 1) / 2, so do the combined ranks, and every component rank and    *)
(* every combined rank lies between 1 and K, whatever values are tied.      *)
C17_RankSums ==
    Ranked =>
        LET K == Len(Rows)
            first == SumRanks([k \in 1..K |-> CompRank(Rows[k], 1)], K)
            second == SumRanks([k \in 1..K |-> CompRank(Rows[k], 2)], K)
            combined == SumRanks([k \in 1..K |-> Rows[k].Combined_Rank], K)
        IN  /\ K >= 1
            /\ K = IncludedCount
            /\ 2 * first[1] = first[2] * K * (K + 1)
            /\ 2 * second[1] = second[2] * K * (K + 1)
            /\ 2 * combined[1] = combined[2] * K * (K + 1)
            /\ \A k \in 1..K :
                  /\ InOneToK(CompRank(Rows[k], 1), K)
                  /\ InOneToK(CompRank(Rows[k], 2), K)
                  /\ InOneToK(Rows[k].Combined_Rank, K)

\* three ranked rows, two of them tied in the first component and all three
\* tied in the second
C17_Witness ==
    /\ Ranked
    /\ Len(Rows) = 3
    /\ Cardinality({k \in 1..3 : CompRank(Rows[k], 1) = <<3, 2>>}) = 2
    /\ \A k \in 1..3 : CompRank(Rows[k], 2) = <<2, 1>>
    /\ \E k \in 1..3 : Rows[k].Combined_Rank = <<5, 2>>

\* the Magic Formula answer just scored holds all seven metrics
AllSevenPresent ==
    /\ model = "Magic"
    /\ Len(results) = 1
    /\ snap.kind = "data"
    /\ \A i \in 1..Len(StockDataKeys) : ~IsNone(snap.data[StockDataKeys[i]])

\* other amounts of current assets the same answer could hold
OtherCurrentAssets == {-5, 0, 30, 50, 1000}

(* C18: Magic Formula, an answer with its seven metrics.  The outcome is    *)
(* Excluded when total assets equal current liabilities, an Included        *)
(* outcome has return on capital EBIT / (total assets - current             *)
(* liabilities), and the same answer with any other amount of current       *)
(* assets gets the same outcome with the same components.                   *)
C18_CurrentAssetsCancel ==
    AllSevenPresent =>
        LET d == snap.data
            denominator == Val(d.Total_Assets) - Val(d.Current_Liabilities)
        IN  /\ denominator = 0 => ExcludedAt(1)
            /\ IncludedAt(1) =>
                  /\ denominator # 0
                  /\ Val(results[1].roc)[1] * denominator
                        = Val(results[1].roc)[2] * Val(d.EBIT)
            /\ \A ca \in OtherCurrentAssets :
                  ScoreOutcome(model, version, companies[1],
                               [snap EXCEPT !.data.Current_Assets = Some(ca)])
                      = results[1]

\* an Included outcome whose answer has current assets 50, total assets 70
\* and current liabilities 30: return on capital 10 / 40
C18_Witness ==
    /\ AllSevenPresent
    /\ IncludedAt(1)
    /\ snap.data.Current_Assets = Some(50)
    /\ snap.data.Total_Assets = Some(70)
    /\ snap.data.Current_Liabilities = Some(30)
    /\ snap.data.EBIT = Some(10)
    /\ results[1].roc = Some(<<1, 4>>)

=============================================================================
